---- MODULE Spec2Model ----
(***************************************************************************)
(* Model of the document-to-structured-data extraction and merge pipeline  *)
(* of APGOVSchemeAnalyzer:                                                 *)
(*   - the versioned store (services/db_service.py, table "extractions"),  *)
(*   - ExtractionService.extract_and_store (services/extraction_service.py)*)
(*   - GeminiClient._split_text_into_chunks and extract_structured_data    *)
(*     (services/gemini_client.py).                                        *)
(*                                                                         *)
(* Value model.  JSON null / Python None in a scalar field is the string   *)
(* Null.  An Optional list or dict is <<>> for None and <<v>> for a value  *)
(* v.  A Python dict with dynamic keys is the sequence of its <<key,value>>*)
(* pairs in insertion order.  A chunk text[start:end] is the pair of its   *)
(* source offsets [lo, hi).                                                *)
(***************************************************************************)
EXTENDS Integers, Sequences, FiniteSets, TLC

(***************************************************************************)
(* Bounds of the model.                                                    *)
(***************************************************************************)
MaxRows == 3        \* rows the extractions table may hold
MaxSubCats == 2     \* sub-categories in one extracted record

Null == "null"

Writers == {"w1", "w2"}

Districts == {"Tawang"}
SectorNames == {"Health"}
SubCategoryNames == {"c1", "c2"}
ActionNames == {"A", "B"}
Statuses == {Null, "done"}
DocumentIds == {1, 2}
Dates == {"2024-01-01", "2024-02-01"}

VARIABLES
    extractions,   \* the extractions table: rows in id order
    pc,            \* pc[w]: where extract_and_store run w stands
    run,           \* run[w]: the locals of extract_and_store run w
    seen           \* what the last concurrent get_district_data call returned

storeVars == <<extractions, pc, run, seen>>

VARIABLES
    text_length,   \* _split_text_into_chunks: len(text)
    chunk_size,    \* its chunk_size argument
    overlap_size,  \* its overlap_size argument
    start,         \* its local start
    chunks,        \* its local chunks, each chunk the offsets <<lo, hi>> of its slice
    spc            \* where the call stands: "idle", "loop" or "done"

splitVars == <<text_length, chunk_size, overlap_size, start, chunks, spc>>

\* extract_structured_data of the Gemini client: its position, the length of
\* document_text, the (district_name, upload_date) arguments, the chunk the
\* loop is at, its two lists, and what the call gave its caller.
VARIABLES epc, document_length, esd_args, ci, all_extracted_data,
          failed_chunks, esd_result

esdVars == <<epc, document_length, esd_args, ci, all_extracted_data,
             failed_chunks, esd_result>>

\* One exchange with the language model: where it stands, the HTTP reply
\* generate_completion gets, what generate_completion gives its caller, and
\* the text _extract_from_chunk hands to json.loads.
VARIABLES lpc, reply, completion, parse_text

llmVars == <<lpc, reply, completion, parse_text>>

vars == <<storeVars, splitVars, esdVars, llmVars>>

(***************************************************************************)
(* Values: action points, sub-categories, extracted records.               *)
(***************************************************************************)
ActionPoint(name, status) ==
    [action_name |-> name, current_status |-> status,
     achievement_percentage |-> Null, data_source |-> Null, remarks |-> Null]

ActionPoints == {ActionPoint(n, s) : n \in ActionNames, s \in Statuses}

\* A sub-category in the old format: action_points directly.
SubCategory(name, aps) ==
    [sub_category_name |-> name, action_points |-> <<aps>>, information |-> <<>>]

\* A sub-category in the format of the prompt and of _merge_extraction_results:
\* an information object, no action_points key.
SubCategoryInfo(name, aps) ==
    [sub_category_name |-> name, action_points |-> <<>>,
     information |-> <<[action_points |-> aps, additional_details |-> <<>>]>>]

\* A sub-category that carries action_points directly and an information
\* object with additional_details (a dict as a list of <<key, value>> pairs).
SubCategoryBoth(name, aps, details) ==
    [sub_category_name |-> name, action_points |-> <<aps>>,
     information |-> <<[action_points |-> aps, additional_details |-> details]>>]

Sector(name, subs) == [sector_name |-> name, sub_categories |-> subs]

ExtractedData(district, date, sectors) ==
    [district |-> district, upload_date |-> date, sectors |-> sectors]

RECURSIVE Flatten(_)
\* The (sector, sub-category) pairs of a record in the order of the nested
\* loops of extract_and_store.
Flatten(sectors) ==
    IF sectors = <<>> THEN <<>>
    ELSE [k \in 1..Len(Head(sectors).sub_categories) |->
             [sector_name |-> Head(sectors).sector_name,
              sub_category |-> Head(sectors).sub_categories[k]]]
         \o Flatten(Tail(sectors))

(***************************************************************************)
(* The versioned store.                                                    *)
(***************************************************************************)
KeyOf(row) == <<row.district_id, row.sector_name, row.sub_category>>

Keys == Districts \X SectorNames \X SubCategoryNames

RowsOf(tbl, key) == SelectSeq(tbl, LAMBDA r : KeyOf(r) = key)

LatestOf(tbl, key) == SelectSeq(tbl, LAMBDA r : KeyOf(r) = key /\ r.is_latest = 1)

\* The place of a version_date in the order of the ISO date strings.
DateRank(d) == IF d = "2024-01-01" THEN 1 ELSE 2

\* An UPDATE with no sector and sub-category in its WHERE clause: every row of
\* the district loses the flag.
MarkDistrictOutdated(tbl, district_id, sector_name, sub_category) ==
    [i \in 1..Len(tbl) |->
        IF tbl[i].district_id = district_id
        THEN [tbl[i] EXCEPT !.is_latest = 0]
        ELSE tbl[i]]

\* UPDATE extractions SET is_latest = 0 dropped: the prior rows stay latest.
MarkOutdatedSkipped(tbl, district_id, sector_name, sub_category) == tbl

\* The UPDATE of mark_extractions_outdated, committed on its own connection.
mark_extractions_outdated(tbl, district_id, sector_name, sub_category) ==
    [i \in 1..Len(tbl) |->
        IF /\ tbl[i].district_id = district_id
           /\ tbl[i].sector_name = sector_name
           /\ tbl[i].sub_category = sub_category
        THEN [tbl[i] EXCEPT !.is_latest = 0]
        ELSE tbl[i]]

\* An INSERT OR REPLACE on the key: the key's earlier rows are gone.
InsertReplacesKey(tbl, document_id, district_id, sector_name, sub_category, data_json, version_date) ==
    Append(SelectSeq(tbl, LAMBDA r : KeyOf(r) # <<district_id, sector_name, sub_category>>),
           [id |-> Len(tbl) + 1, document_id |-> document_id,
            district_id |-> district_id, sector_name |-> sector_name,
            sub_category |-> sub_category, data_json |-> data_json,
            version_date |-> version_date, is_latest |-> 1])

\* An INSERT that takes the flag only when no row of the key has a later
\* version_date.
InsertLatestByDate(tbl, document_id, district_id, sector_name, sub_category, data_json, version_date) ==
    Append(tbl, [id |-> Len(tbl) + 1, document_id |-> document_id,
                 district_id |-> district_id, sector_name |-> sector_name,
                 sub_category |-> sub_category, data_json |-> data_json,
                 version_date |-> version_date,
                 is_latest |->
                    IF \E i \in 1..Len(tbl) :
                          /\ KeyOf(tbl[i]) = <<district_id, sector_name, sub_category>>
                          /\ DateRank(tbl[i].version_date) > DateRank(version_date)
                    THEN 0 ELSE 1])

\* The INSERT of create_extraction: a new row, is_latest = 1, the next id.
insert_extraction(tbl, document_id, district_id, sector_name, sub_category, data_json, version_date) ==
    Append(tbl, [id |-> Len(tbl) + 1,
                 document_id |-> document_id,
                 district_id |-> district_id,
                 sector_name |-> sector_name,
                 sub_category |-> sub_category,
                 data_json |-> data_json,
                 version_date |-> version_date,
                 is_latest |-> 1])

\* A read that finds no row.
GetDistrictDataNone(tbl, district_name, sector_name, sub_category) == <<>>

\* The SELECT of get_district_data: the latest rows of a district; a filter
\* that is falsy (None or "") is left out of the query.
get_district_data(tbl, district_name, sector_name, sub_category) ==
    SelectSeq(tbl, LAMBDA r :
        /\ r.district_id = district_name
        /\ r.is_latest = 1
        /\ (sector_name = "" \/ r.sector_name = sector_name)
        /\ (sub_category = "" \/ r.sub_category = sub_category))

(***************************************************************************)
(* The knowledge merger inside extract_and_store.                          *)
(***************************************************************************)
RECURSIVE Concat(_)
\* existing_action_points: the action_points of every row read, in order.
Concat(rows) ==
    IF rows = <<>> THEN <<>>
    ELSE Head(rows).data_json.action_points \o Concat(Tail(rows))

\* A list in place of the dictionary: every action point is appended.
DictPutAppends(d, ap) == Append(d, ap)

\* merged_action_points_dict[action_name] = ap, skipped for an empty name.
DictPut(d, ap) ==
    IF ap.action_name = "" THEN d
    ELSE IF \E i \in 1..Len(d) : d[i].action_name = ap.action_name
         THEN [i \in 1..Len(d) |->
                  IF d[i].action_name = ap.action_name THEN ap ELSE d[i]]
         ELSE Append(d, ap)

RECURSIVE DictPutAll(_, _)
DictPutAll(d, aps) ==
    IF aps = <<>> THEN d ELSE DictPutAll(DictPut(d, Head(aps)), Tail(aps))

\* The new action points alone, the prior ones dropped.
MergedNewOnly(existing, new) == DictPutAll(<<>>, new)

\* The new action points appended to the prior ones, no dictionary.
MergedAppends(existing, new) == existing \o new

\* list(merged_action_points_dict.values()): existing first, then new.
merged_action_points(existing, new) ==
    DictPutAll(DictPutAll(<<>>, existing), new)

(***************************************************************************)
(* Inputs: what extract_structured_data may hand to extract_and_store.     *)
(***************************************************************************)
\* ExtractionSchema(**extracted_data): every action point of an action_points
\* list must fit ActionPoint (achievement_percentage a number or null); the
\* information object is Dict[str, Any] and is not looked into.
NotANumber == "n/a"

ValidActionPoint(ap) == ap.achievement_percentage # NotANumber

Validates(data) ==
    \A s \in 1..Len(data.sectors) :
        \A c \in 1..Len(data.sectors[s].sub_categories) :
            LET sub == data.sectors[s].sub_categories[c]
            IN sub.action_points # <<>> =>
                   \A a \in 1..Len(sub.action_points[1]) :
                       ValidActionPoint(sub.action_points[1][a])

OldFormatSubCats ==
    {SubCategory("c1", <<ActionPoint("A", Null)>>),
     SubCategory("c1", <<ActionPoint("A", "done")>>),
     SubCategory("c1", <<ActionPoint("B", "done")>>),
     SubCategory("c2", <<ActionPoint("A", "done")>>)}

InfoFormatSubCats ==
    {SubCategoryInfo("c1", <<ActionPoint("A", "done")>>)}

SubCatLists(S) ==
    UNION {[1..n -> S] : n \in 1..MaxSubCats}

\* Records of one sector; <<>> is "no result" (None).
ExtractedInputs(S) ==
    {<<>>} \cup
    {<<ExtractedData(d, t, <<Sector(s, subs)>>)>> :
        d \in Districts, t \in Dates, s \in SectorNames, subs \in SubCatLists(S)}

\* The concurrent runs work on single-sub-category records in the old format.
ConcurrentInputs ==
    {<<ExtractedData(d, t, <<Sector(s, <<SubCategory(c, <<ActionPoint(n, "done")>>)>>)>>)>> :
        d \in Districts, t \in {"2024-01-01"}, s \in SectorNames,
        c \in SubCategoryNames, n \in ActionNames}

(***************************************************************************)
(* ExtractionService.extract_and_store, one run per writer.                *)
(***************************************************************************)
IdleRun ==
    [document_id |-> 0, district_name |-> "", upload_date |-> "",
     items |-> <<>>, i |-> 0, data_json |-> [action_points |-> <<>>],
     stored_count |-> 0, errors |-> <<>>, result |-> "none",
     flipped |-> <<>>, table_before |-> <<>>, raw_data |-> <<>>]

NoRead ==
    [district_name |-> "", sector_name |-> "", sub_category |-> "",
     rows |-> <<>>, written |-> FALSE]

Active(w) == pc[w] \in {"loop", "flip", "insert"}

\* Rows the runs under way may still insert.
Pending(w) == IF Active(w) THEN Len(run[w].items) - run[w].i + 1 ELSE 0

RECURSIVE SumPending(_)
SumPending(S) ==
    IF S = {} THEN 0
    ELSE LET w == CHOOSE x \in S : TRUE IN Pending(w) + SumPending(S \ {w})

CurrentItem(w) == run[w].items[run[w].i]

CurrentKey(w) ==
    <<run[w].district_name, CurrentItem(w).sector_name,
      CurrentItem(w).sub_category.sub_category_name>>

\* Lines 28-51: the record arrives, is validated, and the loop starts.
Begin(w, docs, dates, inputs) ==
    /\ pc[w] = "idle"
    /\ \E document_id \in docs, district_name \in Districts,
          upload_date \in dates, extracted_data \in inputs :
          LET items == IF extracted_data = <<>> THEN <<>>
                       ELSE Flatten(extracted_data[1].sectors)
              fresh == [IdleRun EXCEPT !.document_id = document_id,
                                       !.district_name = district_name,
                                       !.upload_date = upload_date,
                                       !.raw_data = extracted_data]
          IN /\ Len(extractions) + SumPending(Writers) + Len(items) <= MaxRows
             /\ IF extracted_data = <<>> \/ ~Validates(extracted_data[1])
                THEN /\ run' = [run EXCEPT ![w] = [fresh EXCEPT !.result = "failed"]]
                     /\ pc' = pc
                ELSE /\ run' = [run EXCEPT ![w] = [fresh EXCEPT !.items = items, !.i = 1]]
                     /\ pc' = [pc EXCEPT ![w] = "loop"]
    /\ UNCHANGED <<extractions, seen>>
    /\ UNCHANGED <<splitVars, esdVars, llmVars>>

\* Lines 53-103: read the prior latest, merge, serialize.  A sub-category whose
\* action_points is None raises TypeError at line 78, caught at line 126.
ReadMerge(w) ==
    /\ pc[w] = "loop"
    /\ run[w].i <= Len(run[w].items)
    /\ LET sub == CurrentItem(w).sub_category
           existing_data == get_district_data(extractions, run[w].district_name,
                                CurrentItem(w).sector_name, sub.sub_category_name)
       IN IF sub.action_points = <<>>
          THEN /\ run' = [run EXCEPT ![w].result = "failed"]
               /\ pc' = [pc EXCEPT ![w] = "idle"]
          ELSE /\ run' = [run EXCEPT ![w].data_json =
                            [action_points |->
                                merged_action_points(Concat(existing_data),
                                                     sub.action_points[1])],
                                     ![w].flipped = <<>>]
               /\ pc' = [pc EXCEPT ![w] = "flip"]
    /\ UNCHANGED <<extractions, seen>>
    /\ UNCHANGED <<splitVars, esdVars, llmVars>>

\* Line 121: mark_extractions_outdated commits its UPDATE.  flipped records the
\* key when it had a latest row as the UPDATE ran, until the INSERT commits.
Flip(w) ==
    /\ pc[w] = "flip"
    /\ extractions' = mark_extractions_outdated(extractions, CurrentKey(w)[1],
                          CurrentKey(w)[2], CurrentKey(w)[3])
    /\ run' = [run EXCEPT ![w].flipped =
                   IF LatestOf(extractions, CurrentKey(w)) # <<>>
                   THEN <<CurrentKey(w)>> ELSE <<>>]
    /\ pc' = [pc EXCEPT ![w] = "insert"]
    /\ UNCHANGED seen
    /\ UNCHANGED <<splitVars, esdVars, llmVars>>

\* Lines 123-131 and 115: the INSERT commits; the key is counted as stored.
Insert(w) ==
    /\ pc[w] = "insert"
    /\ extractions' = insert_extraction(extractions, run[w].document_id,
                          CurrentKey(w)[1], CurrentKey(w)[2], CurrentKey(w)[3],
                          run[w].data_json, run[w].upload_date)
    /\ run' = [run EXCEPT ![w].stored_count = @ + 1, ![w].i = @ + 1,
                          ![w].flipped = <<>>]
    /\ pc' = [pc EXCEPT ![w] = "loop"]
    /\ UNCHANGED seen
    /\ UNCHANGED <<splitVars, esdVars, llmVars>>

\* The exception of the INSERT caught by the outer handler instead: the run
\* ends in failure with the remaining pairs unread.
InsertFailsAborts(w) ==
    /\ pc[w] = "insert"
    /\ run' = [run EXCEPT ![w].result = "failed"]
    /\ pc' = [pc EXCEPT ![w] = "idle"]
    /\ UNCHANGED <<extractions, seen>>
    /\ UNCHANGED <<splitVars, esdVars, llmVars>>

\* Lines 116-117: the INSERT raises (database locked, disk full); the error is
\* appended and the loop goes on.
InsertFails(w) ==
    /\ pc[w] = "insert"
    /\ run' = [run EXCEPT ![w].errors = Append(@, <<CurrentKey(w)[2], CurrentKey(w)[3]>>),
                          ![w].i = @ + 1]
    /\ pc' = [pc EXCEPT ![w] = "loop"]
    /\ UNCHANGED <<extractions, seen>>
    /\ UNCHANGED <<splitVars, esdVars, llmVars>>

\* The process dies inside create_extraction.
Crash(w) ==
    /\ pc[w] \in {"flip", "insert"}
    /\ pc' = [pc EXCEPT ![w] = "crashed"]
    /\ UNCHANGED <<extractions, run, seen>>
    /\ UNCHANGED <<splitVars, esdVars, llmVars>>

\* Lines 119-124: the loop is over.
Return(w) ==
    /\ pc[w] = "loop"
    /\ run[w].i > Len(run[w].items)
    /\ run' = [run EXCEPT ![w].result = "success"]
    /\ pc' = [pc EXCEPT ![w] = "idle"]
    /\ UNCHANGED <<extractions, seen>>
    /\ UNCHANGED <<splitVars, esdVars, llmVars>>

\* A get_district_data call of another request: one SELECT, one snapshot.
\* written records whether the key had any row at that moment.
ReadLatest ==
    /\ seen = NoRead
    /\ \E key \in Keys :
          seen' = [district_name |-> key[1], sector_name |-> key[2],
                   sub_category |-> key[3],
                   rows |-> get_district_data(extractions, key[1], key[2], key[3]),
                   written |-> RowsOf(extractions, key) # <<>>]
    /\ UNCHANGED <<extractions, pc, run>>
    /\ UNCHANGED <<splitVars, esdVars, llmVars>>

StoreInit ==
    /\ extractions = <<>>
    /\ pc = [w \in Writers |-> "idle"]
    /\ run = [w \in Writers |-> IdleRun]
    /\ seen = NoRead

\* No _split_text_into_chunks call under way.
SplitIdle ==
    /\ text_length = 0
    /\ chunk_size = 0
    /\ overlap_size = 0
    /\ start = 0
    /\ chunks = <<>>
    /\ spc = "idle"

\* No extract_structured_data call under way.
EsdIdle ==
    /\ epc = "idle"
    /\ document_length = 0
    /\ esd_args = [district_name |-> "", upload_date |-> ""]
    /\ ci = 0
    /\ all_extracted_data = <<>>
    /\ failed_chunks = <<>>
    /\ esd_result = <<>>

\* No exchange with the language model under way.
LlmIdle ==
    /\ lpc = "idle"
    /\ reply = <<>>
    /\ completion = <<>>
    /\ parse_text = <<>>

Init == StoreInit /\ SplitIdle /\ EsdIdle /\ LlmIdle

(***************************************************************************)
(* Spec: requests served concurrently (several workers on one database     *)
(* file) next to a reader; every step of every run succeeds.               *)
(***************************************************************************)
Next ==
    \/ \E w \in Writers : Begin(w, {1}, {"2024-01-01"}, ConcurrentInputs)
    \/ \E w \in Writers : ReadMerge(w)
    \/ \E w \in Writers : Flip(w)
    \/ \E w \in Writers : Insert(w)
    \/ \E w \in Writers : Return(w)
    \/ ReadLatest

Spec == Init /\ [][Next]_vars

(***************************************************************************)
(* SeqSpec: one extract_and_store run at a time, every call completing.    *)
(***************************************************************************)
SeqInputs == ExtractedInputs(OldFormatSubCats \cup InfoFormatSubCats)

SeqNext ==
    \/ Begin("w1", {1}, Dates, SeqInputs)
    \/ ReadMerge("w1")
    \/ Flip("w1")
    \/ Insert("w1")
    \/ Return("w1")

SeqSpec == Init /\ [][SeqNext]_vars

(***************************************************************************)
(* CrashSpec: one run at a time; the INSERT may raise and the process may  *)
(* die inside create_extraction.                                           *)
(***************************************************************************)
CrashInputs ==
    ExtractedInputs({SubCategory(c, <<ActionPoint(n, "done")>>) :
                        c \in SubCategoryNames, n \in ActionNames})

CrashNext ==
    \/ Begin("w1", {1}, {"2024-01-01"}, CrashInputs)
    \/ ReadMerge("w1")
    \/ Flip("w1")
    \/ Insert("w1")
    \/ InsertFails("w1")
    \/ Crash("w1")
    \/ Return("w1")

CrashSpec == Init /\ [][CrashNext]_vars

(***************************************************************************)
(* Claims on the versioned store.                                          *)
(***************************************************************************)
NoCallUnderWay == \A w \in Writers : pc[w] # "insert"

\* C1: with no create_extraction between its UPDATE and its INSERT, every key
\* that has rows has exactly one row with is_latest = 1 (the others have 0),
\* and a key without rows has no latest row.
LatestPointerInvariant ==
    NoCallUnderWay =>
        \A key \in Keys :
            /\ \A i \in 1..Len(extractions) : extractions[i].is_latest \in {0, 1}
            /\ Len(LatestOf(extractions, key)) =
                   IF RowsOf(extractions, key) # <<>> THEN 1 ELSE 0

\* A key written three times: one latest row and two historical ones.
LatestPointerWitness ==
    /\ NoCallUnderWay
    /\ \E key \in Keys :
          /\ Len(RowsOf(extractions, key)) = 3
          /\ Len(LatestOf(extractions, key)) = 1

\* C2: create_extraction is one unit of work: a call that flipped a latest row
\* of its key and then died or failed at its INSERT leaves the key with a
\* latest row (the flip does not persist).
UnitOfWork ==
    \A w \in Writers :
        (pc[w] # "insert" /\ run[w].flipped # <<>>) =>
            LatestOf(extractions, run[w].flipped[1]) # <<>>

\* C3: whatever the interleaving of create_extraction calls, no key ever has
\* more than one row with is_latest = 1.
AtMostOneLatest ==
    \A key \in Keys : Len(LatestOf(extractions, key)) <= 1

RunNames(w) ==
    {run[w].items[k].sub_category.action_points[1][a].action_name :
        k \in 1..Len(run[w].items), a \in {1}}

LatestNames(key) ==
    {Concat(LatestOf(extractions, key))[a].action_name :
        a \in 1..Len(Concat(LatestOf(extractions, key)))}

Finished(w) ==
    /\ pc[w] = "idle"
    /\ run[w].result = "success"
    /\ run[w].stored_count = 1

\* C4: read / merge / write is serialized per key: when the last runs of the
\* two writers both stored the same key, one bringing action point A and the
\* other B, the latest content of the key holds both A and B.
NoLostUpdate ==
    \A key \in Keys :
        (/\ Finished("w1") /\ Finished("w2")
         /\ run["w1"].i = 2 /\ run["w2"].i = 2
         /\ <<run["w1"].district_name, run["w1"].items[1].sector_name,
              run["w1"].items[1].sub_category.sub_category_name>> = key
         /\ <<run["w2"].district_name, run["w2"].items[1].sector_name,
              run["w2"].items[1].sub_category.sub_category_name>> = key)
        => (RunNames("w1") \cup RunNames("w2")) \subseteq LatestNames(key)

\* C5: a get_district_data call sees a key either before or after a write: of
\* a key that had rows when it was read it returns exactly one latest row.
ReaderSeesOneLatest ==
    seen.written => Len(seen.rows) = 1

(***************************************************************************)
(* GeminiClient._split_text_into_chunks.  The text is its length; a chunk  *)
(* text[start:end] is the pair of offsets the slice takes.                 *)
(***************************************************************************)
MaxLen == 9         \* longest text of the small family
MaxChunkSize == 4   \* largest chunk_size of the small family
MaxChunks == 12     \* chunks the memory holds (more than any text of the
                    \* small family has windows)

Min(a, b) == IF a < b THEN a ELSE b

Max(a, b) == IF a > b THEN a ELSE b

\* text[lo:hi] of a text of n characters: a negative index counts from the
\* end, and both are clamped to [0, n].
PySlice(lo, hi, n) ==
    LET l == IF lo < 0 THEN Max(lo + n, 0) ELSE Min(lo, n)
        h == IF hi < 0 THEN Max(hi + n, 0) ELSE Min(hi, n)
    IN <<l, Max(l, h)>>

\* (len(text), chunk_size, overlap_size) with chunk_size > overlap_size >= 0:
\* a small family, and the production constants on 8001 and 20000 characters.
SplitInputs ==
    {<<n, c, o>> : n \in 0..MaxLen, c \in 1..MaxChunkSize, o \in 0..(MaxChunkSize - 1)}
    \cup {<<8001, 8000, 500>>, <<20000, 8000, 500>>}

\* Lines 155-157: the call starts.
SplitCall(n, c, o) ==
    /\ text_length = n
    /\ chunk_size = c
    /\ overlap_size = o
    /\ start = 0
    /\ chunks = <<>>
    /\ spc = "loop"

\* Lines 159-172: one iteration of the while loop, the break included.
SplitStep ==
    /\ spc = "loop"
    /\ start < text_length
    /\ Len(chunks) < MaxChunks
    /\ LET end == Min(start + chunk_size, text_length)
       IN /\ chunks' = Append(chunks, PySlice(start, end, text_length))
          /\ start' = end - overlap_size
          /\ spc' = IF end - overlap_size >= text_length - 1 THEN "done" ELSE "loop"
    /\ UNCHANGED <<text_length, chunk_size, overlap_size>>
    /\ UNCHANGED <<storeVars, esdVars, llmVars>>

\* Lines 159 and 174: the while condition fails and the list is returned.
SplitExit ==
    /\ spc = "loop"
    /\ ~(start < text_length)
    /\ spc' = "done"
    /\ UNCHANGED <<text_length, chunk_size, overlap_size, start, chunks>>
    /\ UNCHANGED <<storeVars, esdVars, llmVars>>

\* Line 164 when the list has outgrown the memory: chunks.append raises
\* MemoryError, which neither function catches, or the process is killed.
SplitOutOfMemory ==
    /\ spc = "loop"
    /\ start < text_length
    /\ Len(chunks) = MaxChunks
    /\ \E out \in {"raised", "killed"} :
          /\ spc' = out
          /\ epc' = IF epc = "split" THEN out ELSE epc
    /\ UNCHANGED <<text_length, chunk_size, overlap_size, start, chunks>>
    /\ UNCHANGED <<document_length, esd_args, ci, all_extracted_data,
                   failed_chunks, esd_result>>
    /\ UNCHANGED <<storeVars, llmVars>>

(***************************************************************************)
(* SplitSpec: one call of _split_text_into_chunks on every input of        *)
(* SplitInputs.                                                            *)
(***************************************************************************)
SplitInit ==
    /\ StoreInit
    /\ LlmIdle
    /\ EsdIdle
    /\ \E in \in SplitInputs :
          /\ in[2] > in[3]
          /\ SplitCall(in[1], in[2], in[3])

SplitNext ==
    \/ SplitStep
    \/ SplitExit
    \/ SplitOutOfMemory

SplitSpec == SplitInit /\ [][SplitNext]_vars

(***************************************************************************)
(* Claims on the chunker.                                                  *)
(***************************************************************************)
\* C6: the loop terminates for every chunk_size > overlap_size >= 0: start is
\* the loop's measure, so every iteration that does not leave the loop moves
\* start forward (the iteration depends on start alone: once start repeats,
\* the loop repeats for ever).
SplitTerminates ==
    [][(spc = "loop" /\ spc' = "loop") => start' > start]_vars

RECURSIVE WindowsFrom(_, _, _, _)
\* The windows [k*step, min(k*step + chunk_size, n)) from offset lo on, up to
\* the first one that ends at n.
WindowsFrom(lo, n, c, o) ==
    IF lo + c >= n THEN << <<lo, n>> >>
    ELSE << <<lo, lo + c>> >> \o WindowsFrom(lo + (c - o), n, c, o)

IsPrefix(s, t) ==
    /\ Len(s) <= Len(t)
    /\ \A i \in 1..Len(s) : s[i] = t[i]

\* C7: for a text longer than chunk_size the chunks are exactly the windows
\* [k*step, min(k*step + chunk_size, L)) up to the first that ends at L: the
\* list under construction is always a prefix of them and the returned list
\* is all of them (3 chunks for 8000 / 500 / 20000).
ChunksAreTheWindows ==
    (spc \in {"loop", "done"} /\ text_length > chunk_size) =>
        LET w == WindowsFrom(0, text_length, chunk_size, overlap_size)
        IN /\ IsPrefix(chunks, w)
           /\ spc = "done" => chunks = w

\* C8: for chunk_size < L the returned chunks cover every offset of [0, L)
\* and the last one ends at L.
ChunksCoverText ==
    (spc = "done" /\ chunk_size < text_length) =>
        /\ \A x \in 0..(text_length - 1) :
              \E i \in 1..Len(chunks) : chunks[i][1] <= x /\ x < chunks[i][2]
        /\ chunks # <<>>
        /\ chunks[Len(chunks)][2] = text_length


(***************************************************************************)
(* extract_and_store seen from its caller: the record in, the rows out.    *)
(***************************************************************************)
\* The action points a (sector, sub-category) pair of the record carries, in
\* either shape the schema allows.
PairActionPoints(sub) ==
    IF sub.action_points # <<>> THEN sub.action_points[1]
    ELSE IF sub.information # <<>> THEN sub.information[1].action_points
    ELSE <<>>

Returned(w) ==
    /\ pc[w] = "idle"
    /\ run[w].result \in {"success", "failed"}
    /\ run[w].items # <<>>

\* C9: once extract_and_store has returned for a record that
\* extract_structured_data delivered and the schema accepted, it reports
\* success, its stored count is the number of (sector, sub-category) pairs of
\* the record, and every pair has exactly one latest row, which holds the
\* pair's action points (merged by name into the prior latest).
RecordIsStored ==
    \A w \in Writers :
        Returned(w) =>
            /\ run[w].result = "success"
            /\ run[w].stored_count = Len(run[w].items)
            /\ \A k \in 1..Len(run[w].items) :
                  LET item == run[w].items[k]
                      key == <<run[w].district_name, item.sector_name,
                               item.sub_category.sub_category_name>>
                      aps == PairActionPoints(item.sub_category)
                  IN /\ Len(LatestOf(extractions, key)) = 1
                     /\ {aps[j].action_name : j \in 1..Len(aps)} \subseteq LatestNames(key)


(***************************************************************************)
(* GeminiClient._merge_extraction_results.  merged_sectors is the list of  *)
(* its entries in insertion order, and so is each dict inside it.          *)
(***************************************************************************)
\* The JSON object {}.
EmptyDict == [no_keys |-> TRUE]

\* Truthiness of a field value: None, "" and 0 are falsy.
Truthy(v) == v \notin {Null, "", "0"}

ActionPointPct(name, status, pct) ==
    [ActionPoint(name, status) EXCEPT !.achievement_percentage = pct]

MergedKeys == {"current_status", "achievement_percentage", "data_source", "remarks"}

\* Lines 317-323: a truthy value of the later occurrence replaces the value
\* kept so far.
PreferNew(existing, ap) ==
    [key \in DOMAIN existing |->
        IF key \in MergedKeys /\ Truthy(ap[key]) THEN ap[key] ELSE existing[key]]

\* A deduplication that keeps every occurrence.
DedupPutAppends(d, ap) == Append(d, ap)

\* Lines 310-323 for one action point.
DedupPut(d, ap) ==
    IF ap.action_name = "" THEN d
    ELSE IF \E i \in 1..Len(d) : d[i].action_name = ap.action_name
         THEN [i \in 1..Len(d) |->
                  IF d[i].action_name = ap.action_name
                  THEN PreferNew(d[i], ap) ELSE d[i]]
         ELSE Append(d, ap)

RECURSIVE Deduplicate(_, _)
\* Lines 308-326.
Deduplicate(d, action_points) ==
    IF action_points = <<>> THEN d
    ELSE Deduplicate(DedupPut(d, Head(action_points)), Tail(action_points))

RECURSIVE DictUpdate(_, _)
\* dict.update on dicts kept as lists of <<key, value>> pairs.
DictUpdate(d, pairs) ==
    IF pairs = <<>> THEN d
    ELSE LET kv == Head(pairs)
             put == IF \E i \in 1..Len(d) : d[i][1] = kv[1]
                    THEN [i \in 1..Len(d) |-> IF d[i][1] = kv[1] THEN kv ELSE d[i]]
                    ELSE Append(d, kv)
         IN DictUpdate(put, Tail(pairs))

\* Lines 262-290 for one sub_cat of a sector.
AccumulateSubCat(subs, sub_cat) ==
    IF sub_cat.sub_category_name = "" THEN subs
    ELSE LET name == sub_cat.sub_category_name
             base == IF \E i \in 1..Len(subs) : subs[i].sub_category_name = name
                     THEN subs
                     ELSE Append(subs, [sub_category_name |-> name,
                                        action_points |-> <<>>,
                                        additional_details |-> <<>>])
             subcat_info == sub_cat.information
             action_points ==
                 IF subcat_info # <<>> THEN subcat_info[1].action_points
                 ELSE IF sub_cat.action_points # <<>> THEN sub_cat.action_points[1]
                 ELSE <<>>
             additional_details ==
                 IF subcat_info # <<>> THEN subcat_info[1].additional_details
                 ELSE <<>>
         IN [i \in 1..Len(base) |->
                IF base[i].sub_category_name = name
                THEN [base[i] EXCEPT
                         !.action_points = @ \o action_points,
                         !.additional_details = DictUpdate(@, additional_details)]
                ELSE base[i]]

RECURSIVE AccumulateSubCats(_, _)
AccumulateSubCats(subs, sub_categories) ==
    IF sub_categories = <<>> THEN subs
    ELSE AccumulateSubCats(AccumulateSubCat(subs, Head(sub_categories)),
                           Tail(sub_categories))

\* Lines 251-290 for one sector of a result.
AccumulateSector(merged_sectors, sector) ==
    IF sector.sector_name = "" THEN merged_sectors
    ELSE LET name == sector.sector_name
             base == IF \E i \in 1..Len(merged_sectors) :
                           merged_sectors[i].sector_name = name
                     THEN merged_sectors
                     ELSE Append(merged_sectors, [sector_name |-> name, subs |-> <<>>])
         IN [i \in 1..Len(base) |->
                IF base[i].sector_name = name
                THEN [base[i] EXCEPT
                         !.subs = AccumulateSubCats(@, sector.sub_categories)]
                ELSE base[i]]

RECURSIVE AccumulateSectors(_, _)
AccumulateSectors(merged_sectors, sectors) ==
    IF sectors = <<>> THEN merged_sectors
    ELSE AccumulateSectors(AccumulateSector(merged_sectors, Head(sectors)),
                           Tail(sectors))

RECURSIVE AccumulateResults(_, _)
\* Lines 245-290.
AccumulateResults(merged_sectors, all_results) ==
    IF all_results = <<>> THEN merged_sectors
    ELSE LET result == Head(all_results)
         IN AccumulateResults(
                IF result = EmptyDict THEN merged_sectors
                ELSE AccumulateSectors(merged_sectors, result.sectors),
                Tail(all_results))

\* Lines 296-334 for one sub-category of merged_sectors.
BuildSubCat(subcat_data) ==
    [sub_category_name |-> subcat_data.sub_category_name,
     action_points |-> <<>>,
     information |->
        <<[action_points |-> Deduplicate(<<>>, subcat_data.action_points),
           additional_details |-> subcat_data.additional_details]>>]

\* Lines 229-346.
merge_extraction_results(all_results, district_name, upload_date) ==
    LET merged_sectors == AccumulateResults(<<>>, all_results)
    IN ExtractedData(district_name, upload_date,
           [i \in 1..Len(merged_sectors) |->
               Sector(merged_sectors[i].sector_name,
                      [j \in 1..Len(merged_sectors[i].subs) |->
                          BuildSubCat(merged_sectors[i].subs[j])])])


\* The list of a sub_cat that lines 274-284 extend the accumulated list with:
\* the objects of the partial themselves, not copies.
TakenPoints(sub_cat) ==
    IF sub_cat.information # <<>> THEN sub_cat.information[1].action_points
    ELSE IF sub_cat.action_points # <<>> THEN sub_cat.action_points[1]
    ELSE <<>>

\* The action point k of sub-category j of sector i of partial p is
\* accumulated, and under which names.
Accumulated(all_results, p, i, j, k) ==
    /\ all_results[p] # EmptyDict
    /\ all_results[p].sectors[i].sector_name # ""
    /\ all_results[p].sectors[i].sub_categories[j].sub_category_name # ""
    /\ TakenPoints(all_results[p].sectors[i].sub_categories[j])[k].action_name # ""

SameFact(all_results, p, i, j, k, q, a, b, c) ==
    /\ all_results[p].sectors[i].sector_name = all_results[q].sectors[a].sector_name
    /\ all_results[p].sectors[i].sub_categories[j].sub_category_name
          = all_results[q].sectors[a].sub_categories[b].sub_category_name
    /\ TakenPoints(all_results[p].sectors[i].sub_categories[j])[k].action_name
          = TakenPoints(all_results[q].sectors[a].sub_categories[b])[c].action_name

\* Line 313: the object is the first of its name in the accumulated list, the
\* one action_points_dict keeps.
FirstOccurrence(all_results, p, i, j, k) ==
    /\ Accumulated(all_results, p, i, j, k)
    /\ ~\E q \in 1..p :
          /\ all_results[q] # EmptyDict
          /\ \E a \in 1..Len(all_results[q].sectors) :
                \E b \in 1..Len(all_results[q].sectors[a].sub_categories) :
                   \E c \in 1..Len(TakenPoints(all_results[q].sectors[a].sub_categories[b])) :
                      /\ \/ q < p
                         \/ q = p /\ a < i
                         \/ q = p /\ a = i /\ b < j
                         \/ q = p /\ a = i /\ b = j /\ c < k
                      /\ Accumulated(all_results, q, a, b, c)
                      /\ SameFact(all_results, p, i, j, k, q, a, b, c)

\* The entry of the merged record for the fact of an accumulated object.
MergedEntry(merged, sector_name, sub_category_name, action_name) ==
    LET sector == CHOOSE x \in {merged.sectors[i] : i \in 1..Len(merged.sectors)} :
                      x.sector_name = sector_name
        sub == CHOOSE x \in {sector.sub_categories[j] :
                                j \in 1..Len(sector.sub_categories)} :
                   x.sub_category_name = sub_category_name
        aps == sub.information[1].action_points
    IN CHOOSE x \in {aps[k] : k \in 1..Len(aps)} : x.action_name = action_name

\* Lines 314-323 seen from the caller: existing is the object of the partial,
\* so existing[key] = ap.get(key) writes into the partial.  The partials as
\* they are when the call has returned.
partials_after_merge(all_results, district_name, upload_date) ==
    LET merged == merge_extraction_results(all_results, district_name, upload_date)
        PointsAfter(p, i, j) ==
            LET sub == all_results[p].sectors[i].sub_categories[j]
            IN [k \in 1..Len(TakenPoints(sub)) |->
                   IF FirstOccurrence(all_results, p, i, j, k)
                   THEN MergedEntry(merged, all_results[p].sectors[i].sector_name,
                                    sub.sub_category_name,
                                    TakenPoints(sub)[k].action_name)
                   ELSE TakenPoints(sub)[k]]
        SubAfter(p, i, j) ==
            LET sub == all_results[p].sectors[i].sub_categories[j]
            IN IF sub.information # <<>>
               THEN [sub EXCEPT !.information =
                        <<[@[1] EXCEPT !.action_points = PointsAfter(p, i, j)]>>]
               ELSE IF sub.action_points # <<>>
               THEN [sub EXCEPT !.action_points = <<PointsAfter(p, i, j)>>]
               ELSE sub
        SectorAfter(p, i) ==
            [all_results[p].sectors[i] EXCEPT !.sub_categories =
                [j \in 1..Len(@) |-> SubAfter(p, i, j)]]
    IN [p \in 1..Len(all_results) |->
           IF all_results[p] = EmptyDict THEN all_results[p]
           ELSE [all_results[p] EXCEPT !.sectors =
                    [i \in 1..Len(@) |-> SectorAfter(p, i)]]]


(***************************************************************************)
(* GeminiClient.extract_structured_data.                                   *)
(***************************************************************************)
CHUNK_SIZE == 8000

OVERLAP_SIZE == 500

MaxDocChunks == 5   \* chunks of the longest document the chunk loop is given

\* Partial records a chunk's answer parses to.
ChunkPartials ==
    {ExtractedData("Tawang", "2024-01-01",
         <<Sector("Health", <<SubCategoryInfo("c1", <<ActionPointPct("A", Null, Null)>>)>>)>>),
     ExtractedData("Tawang", "2024-01-01",
         <<Sector("Health", <<SubCategoryInfo("c1", <<ActionPointPct("A", "done", "75")>>)>>)>>),
     ExtractedData("Tawang", "2024-01-01",
         <<Sector("Health", <<SubCategory("c2", <<ActionPoint("B", "done")>>)>>)>>)}

\* What one _extract_from_chunk call does: it raises (an answer envelope
\* generate_completion cannot index), or returns None (no answer, or text
\* that is not JSON), {} or a partial record.
ChunkOutcomes ==
    {[raises |-> TRUE, value |-> <<>>]}
    \cup {[raises |-> FALSE, value |-> v] :
             v \in {<<>>, <<EmptyDict>>} \cup {<<p>> : p \in ChunkPartials}}

\* len(document_text): up to CHUNK_SIZE, and beyond it.
DocumentLengths ==
    {1, CHUNK_SIZE, CHUNK_SIZE + 1, 9000, 12000, 16000, 20000, 24000, 30500, 38000, 50000}

\* Lines 79-105: the call; a text longer than CHUNK_SIZE goes to
\* _split_text_into_chunks.
EsdCall(lengths) ==
    /\ epc = "idle"
    /\ \E n \in lengths, d \in Districts, t \in {"2024-01-01"} :
          /\ document_length' = n
          /\ esd_args' = [district_name |-> d, upload_date |-> t]
          /\ IF n <= CHUNK_SIZE
             THEN /\ epc' = "single"
                  /\ UNCHANGED splitVars
             ELSE /\ epc' = "split"
                  /\ text_length' = n
                  /\ chunk_size' = CHUNK_SIZE
                  /\ overlap_size' = OVERLAP_SIZE
                  /\ start' = 0
                  /\ chunks' = <<>>
                  /\ spc' = "loop"
    /\ UNCHANGED <<ci, all_extracted_data, failed_chunks, esd_result>>
    /\ UNCHANGED <<storeVars, llmVars>>

\* Line 101: a small document is one _extract_from_chunk call, whose result
\* or exception is the call's.
EsdSingle ==
    /\ epc = "single"
    /\ \E o \in ChunkOutcomes :
          /\ esd_result' = o.value
          /\ epc' = IF o.raises THEN "raised" ELSE "returned"
    /\ UNCHANGED <<document_length, esd_args, ci, all_extracted_data, failed_chunks>>
    /\ UNCHANGED <<storeVars, splitVars, llmVars>>

\* Lines 105-110: _split_text_into_chunks has returned; the chunk loop starts.
EsdChunksReady ==
    /\ epc = "split"
    /\ spc = "done"
    /\ all_extracted_data' = <<>>
    /\ failed_chunks' = <<>>
    /\ ci' = 1
    /\ epc' = "chunks"
    /\ UNCHANGED <<document_length, esd_args, esd_result>>
    /\ UNCHANGED <<storeVars, splitVars, llmVars>>

\* Lines 111-126: one chunk; a falsy result or an exception counts it failed.
EsdChunk ==
    /\ epc = "chunks"
    /\ ci <= Len(chunks)
    /\ \E o \in ChunkOutcomes :
          IF ~o.raises /\ o.value # <<>> /\ o.value[1] # EmptyDict
          THEN /\ all_extracted_data' = Append(all_extracted_data, o.value[1])
               /\ UNCHANGED failed_chunks
          ELSE /\ failed_chunks' = Append(failed_chunks, ci)
               /\ UNCHANGED all_extracted_data
    /\ ci' = ci + 1
    /\ UNCHANGED <<epc, document_length, esd_args, esd_result>>
    /\ UNCHANGED <<storeVars, splitVars, llmVars>>

\* Lines 128-141: the threshold, then the merge of the collected partials.
EsdFinish ==
    /\ epc = "chunks"
    /\ ci > Len(chunks)
    /\ esd_result' =
          IF 2 * Len(failed_chunks) > Len(chunks) THEN <<>>
          ELSE IF all_extracted_data = <<>> THEN <<>>
          ELSE <<merge_extraction_results(all_extracted_data,
                     esd_args.district_name, esd_args.upload_date)>>
    /\ all_extracted_data' =
          IF 2 * Len(failed_chunks) > Len(chunks) THEN all_extracted_data
          ELSE partials_after_merge(all_extracted_data,
                   esd_args.district_name, esd_args.upload_date)
    /\ epc' = "returned"
    /\ UNCHANGED <<document_length, esd_args, ci, failed_chunks>>
    /\ UNCHANGED <<storeVars, splitVars, llmVars>>


(***************************************************************************)
(* ExtractSpec: one extract_structured_data call on a document of every    *)
(* length of DocumentLengths.  With more than CHUNK_SIZE characters line    *)
(* 105 never returns (ChunkLoopUnreached), so the steps after it are never *)
(* enabled here; ChunkLoopSpec has them.                                   *)
(***************************************************************************)
ExtractNext ==
    \/ EsdCall(DocumentLengths)
    \/ EsdSingle
    \/ SplitStep
    \/ SplitOutOfMemory

ExtractSpec == Init /\ [][ExtractNext]_vars

\* Under ExtractSpec: line 105 never returns, EsdChunksReady is never enabled.
ChunkLoopUnreached == epc = "split" => spc = "loop"

(***************************************************************************)
(* ChunkLoopSpec: lines 108-141 from a chunk list at hand, the windows of  *)
(* the text.  _split_text_into_chunks does not return one for CHUNK_SIZE   *)
(* and OVERLAP_SIZE, so this is what the chunk loop makes of a chunk list, *)
(* not a state a call arrives at.                                          *)
(***************************************************************************)
ChunkedLengths ==
    {n \in DocumentLengths :
        /\ n > CHUNK_SIZE
        /\ Len(WindowsFrom(0, n, CHUNK_SIZE, OVERLAP_SIZE)) <= MaxDocChunks}

ChunkLoopInit ==
    /\ StoreInit
    /\ LlmIdle
    /\ \E n \in ChunkedLengths :
          /\ document_length = n
          /\ text_length = n
          /\ chunks = WindowsFrom(0, n, CHUNK_SIZE, OVERLAP_SIZE)
          /\ start = n - OVERLAP_SIZE
    /\ chunk_size = CHUNK_SIZE
    /\ overlap_size = OVERLAP_SIZE
    /\ spc = "done"
    /\ epc = "split"
    /\ esd_args = [district_name |-> "Tawang", upload_date |-> "2024-01-01"]
    /\ ci = 0
    /\ all_extracted_data = <<>>
    /\ failed_chunks = <<>>
    /\ esd_result = <<>>

ChunkLoopNext ==
    \/ EsdChunksReady
    \/ EsdChunk
    \/ EsdFinish

ChunkLoopSpec == ChunkLoopInit /\ [][ChunkLoopNext]_vars

\* The batch rule on a call that has returned from the chunk loop: no result
\* exactly when more than half of the chunks are counted failed, and a result
\* is the merge of the partials collected.
ThresholdRule ==
    /\ esd_result = <<>> <=> 2 * Len(failed_chunks) > Len(chunks)
    /\ Len(all_extracted_data) + Len(failed_chunks) = Len(chunks)
    /\ esd_result # <<>> =>
          esd_result[1] = merge_extraction_results(all_extracted_data,
                              esd_args.district_name, esd_args.upload_date)

\* C10: a call on a document that is processed in chunks (more than
\* CHUNK_SIZE characters) ends by returning, and by the batch rule: None if
\* and only if more than n/2 of its n chunks failed, else the merge of the
\* partials of the chunks that succeeded.
ChunkedCallReturns ==
    (document_length > CHUNK_SIZE /\ epc \notin {"idle", "split", "chunks"}) =>
        (epc = "returned" /\ Len(chunks) > 1 /\ ThresholdRule)

\* Lines 108-141 alone keep the batch rule (under ChunkLoopSpec).
ChunkLoopKeepsRule ==
    (epc = "returned" /\ document_length > CHUNK_SIZE) =>
        (Len(chunks) > 1 /\ ThresholdRule)


(***************************************************************************)
(* MergeSpec: _merge_extraction_results as line 140 calls it, on every     *)
(* list of up to MaxPartials partials of MergePartials.                    *)
(***************************************************************************)
MaxPartials == 2    \* partials in one all_results list
MaxPartialAPs == 2  \* action points one sub-category of a partial carries

\* Action points of the partials: a name with no value, with values, with the
\* falsy values 0 and "", a second name, and a name differing in case only.
MergeActionPoints ==
    {ActionPointPct("A", Null, Null), ActionPointPct("A", "done", "75"),
     ActionPointPct("A", "", "0"), ActionPointPct("B", "done", Null),
     ActionPointPct("a", "done", Null)}

RECURSIVE SeqsUpTo(_, _)
\* The sequences over S of length at most n.
SeqsUpTo(S, n) ==
    IF n = 0 THEN {<<>>}
    ELSE LET shorter == SeqsUpTo(S, n - 1)
         IN shorter \cup {Append(q, x) : q \in shorter, x \in S}

\* One sector with one sub-category, in the shape of the prompt, and two in
\* the old shape.
MergePartials ==
    {ExtractedData("Tawang", "2024-01-01",
         <<Sector("Health", <<SubCategoryInfo("c1", aps)>>)>>) :
        aps \in SeqsUpTo(MergeActionPoints, MaxPartialAPs)}
    \cup {ExtractedData("Tawang", "2024-01-01",
              <<Sector("Health", <<SubCategory("c2", aps)>>)>>) :
             aps \in {<<>>, <<ActionPointPct("B", "done", Null)>>}}

MergeInit ==
    /\ StoreInit
    /\ LlmIdle
    /\ SplitIdle
    /\ epc = "merge"
    /\ document_length = 0
    /\ esd_args = [district_name |-> "Tawang", upload_date |-> "2024-01-01"]
    /\ ci = 0
    /\ all_extracted_data \in SeqsUpTo(MergePartials, MaxPartials) \ {<<>>}
    /\ failed_chunks = <<>>
    /\ esd_result = <<>>

\* Lines 140-141: the merge of the partials is the call's result.
MergeResults ==
    /\ epc = "merge"
    /\ esd_result' = <<merge_extraction_results(all_extracted_data,
                          esd_args.district_name, esd_args.upload_date)>>
    /\ all_extracted_data' = partials_after_merge(all_extracted_data,
                                 esd_args.district_name, esd_args.upload_date)
    /\ epc' = "returned"
    /\ UNCHANGED <<document_length, esd_args, ci, failed_chunks>>
    /\ UNCHANGED <<storeVars, splitVars, llmVars>>

MergeNext == MergeResults

MergeSpec == MergeInit /\ [][MergeNext]_vars

\* The sub-categories of a record, each with its sector's name.
MergedPairs == IF esd_result = <<>> THEN <<>> ELSE Flatten(esd_result[1].sectors)

RECURSIVE OccurrencesIn(_, _, _, _)
\* The action points named name that the pairs (of all partials, in chunk
\* order) give for (sector, sub-category), in order.
OccurrencesIn(pairs, sector_name, sub_category_name, name) ==
    IF pairs = <<>> THEN <<>>
    ELSE LET item == Head(pairs)
             here == IF /\ item.sector_name = sector_name
                        /\ item.sub_category.sub_category_name = sub_category_name
                     THEN SelectSeq(PairActionPoints(item.sub_category),
                                    LAMBDA ap : ap.action_name = name)
                     ELSE <<>>
         IN here \o OccurrencesIn(Tail(pairs), sector_name, sub_category_name, name)

RECURSIVE PartialPairs(_)
\* The (sector, sub-category) pairs of all partials in chunk order.
PartialPairs(all_results) ==
    IF all_results = <<>> THEN <<>>
    ELSE Flatten(Head(all_results).sectors) \o PartialPairs(Tail(all_results))

\* The value of the last occurrence that is not null, null if there is none.
LastNonNull(occ, key) ==
    IF \A i \in 1..Len(occ) : occ[i][key] = Null THEN Null
    ELSE occ[CHOOSE i \in 1..Len(occ) :
                 /\ occ[i][key] # Null
                 /\ \A j \in (i + 1)..Len(occ) : occ[j][key] = Null][key]

\* C11: in the merged record, an action point whose name occurs more than once
\* in its (sector, sub-category) across the partials has in each of the four
\* fields the value of the last occurrence whose value is not null (0 and ""
\* are values), and null only if every occurrence has null.
LastNonNullWins ==
    epc = "returned" =>
        \A k \in 1..Len(MergedPairs) :
            LET item == MergedPairs[k]
                aps == PairActionPoints(item.sub_category)
            IN \A a \in 1..Len(aps) :
                  LET occ == OccurrencesIn(PartialPairs(all_extracted_data),
                                 item.sector_name,
                                 item.sub_category.sub_category_name,
                                 aps[a].action_name)
                  IN Len(occ) > 1 =>
                        \A key \in MergedKeys : aps[a][key] = LastNonNull(occ, key)


(***************************************************************************)
(* UnitsSpec: the two mergers side by side, _merge_extraction_results on   *)
(* lists of UnitsPartials and extract_and_store on records whose           *)
(* sub-category repeats a name or carries an empty one.                    *)
(***************************************************************************)
UnitsPartials ==
    {ExtractedData("Tawang", "2024-01-01", <<Sector("Health", <<sub>>)>>) :
        sub \in {SubCategoryInfo("c1", <<ActionPointPct("A", Null, Null),
                                         ActionPointPct("A", "done", "75")>>),
                 SubCategoryInfo("c1", <<ActionPointPct("A", "", "0"),
                                         ActionPointPct("a", "done", Null)>>),
                 SubCategoryInfo("c1", <<ActionPointPct("B", "done", Null)>>),
                 SubCategory("c2", <<ActionPointPct("B", "done", Null)>>)}}

UnitsInputs ==
    {<<ExtractedData("Tawang", "2024-01-01", <<Sector("Health", <<sub>>)>>)>> :
        sub \in {SubCategory("c1", <<ActionPoint("A", "done"), ActionPoint("A", Null)>>),
                 SubCategory("c1", <<ActionPoint("", "done"), ActionPoint("a", "done")>>),
                 SubCategory("c1", <<ActionPoint("B", "done")>>),
                 SubCategoryBoth("c1", <<ActionPoint("B", "done")>>,
                                 << <<"budget", "10">> >>)}}

UnitsInit ==
    /\ StoreInit
    /\ LlmIdle
    /\ SplitIdle
    /\ epc = "merge"
    /\ document_length = 0
    /\ esd_args = [district_name |-> "Tawang", upload_date |-> "2024-01-01"]
    /\ ci = 0
    /\ all_extracted_data \in SeqsUpTo(UnitsPartials, MaxPartials) \ {<<>>}
    /\ failed_chunks = <<>>
    /\ esd_result = <<>>

UnitsNext ==
    \/ MergeResults
    \/ Begin("w1", {1}, {"2024-01-01"}, UnitsInputs)
    \/ ReadMerge("w1")
    \/ Flip("w1")
    \/ Insert("w1")
    \/ Return("w1")

UnitsSpec == UnitsInit /\ [][UnitsNext]_vars

DistinctNames(aps) ==
    \A i, j \in 1..Len(aps) : i # j => aps[i].action_name # aps[j].action_name

\* C12: the action points of every (sector, sub-category) of a merged record,
\* and of every row extract_and_store has persisted, have pairwise distinct
\* names ("A" and "a" are two names).
PairwiseDistinctNames ==
    /\ \A k \in 1..Len(MergedPairs) :
          DistinctNames(PairActionPoints(MergedPairs[k].sub_category))
    /\ \A r \in 1..Len(extractions) :
          DistinctNames(extractions[r].data_json.action_points)

\* A merge of partials that repeat "A", next to a row stored from a record
\* that repeats "A" on top of a prior row.
PairwiseDistinctWitness ==
    /\ epc = "returned"
    /\ Len(OccurrencesIn(PartialPairs(all_extracted_data), "Health", "c1", "A")) > 1
    /\ Len(extractions) > 1
    /\ extractions[Len(extractions)].data_json.action_points # <<>>
    /\ \E a \in 1..Len(extractions[Len(extractions)].data_json.action_points) :
          extractions[Len(extractions)].data_json.action_points[a] = ActionPoint("A", Null)


RECURSIVE AccumulatedIn(_, _, _)
\* All action points the pairs give for (sector, sub-category), in order.
AccumulatedIn(pairs, sector_name, sub_category_name) ==
    IF pairs = <<>> THEN <<>>
    ELSE LET item == Head(pairs)
             here == IF /\ item.sector_name = sector_name
                        /\ item.sub_category.sub_category_name = sub_category_name
                     THEN PairActionPoints(item.sub_category)
                     ELSE <<>>
         IN here \o AccumulatedIn(Tail(pairs), sector_name, sub_category_name)

\* C13: the merged record has no sub-category for which the partials together
\* supplied no action point.
EmptySubCategoriesOmitted ==
    epc = "returned" =>
        \A k \in 1..Len(MergedPairs) :
            AccumulatedIn(PartialPairs(all_extracted_data),
                          MergedPairs[k].sector_name,
                          MergedPairs[k].sub_category.sub_category_name) # <<>>


(***************************************************************************)
(* extract_and_store as the knowledge merger: what a stored row holds.     *)
(***************************************************************************)
NamesOf(aps) == {aps[i].action_name : i \in 1..Len(aps)}

\* The last entry of aps with the name.
EntryOf(aps, name) ==
    aps[CHOOSE i \in 1..Len(aps) :
            /\ aps[i].action_name = name
            /\ \A j \in (i + 1)..Len(aps) : aps[j].action_name # name]

\* The action points of the last row of a key, none if it has no row.
LastRowPoints(tbl, key) ==
    IF RowsOf(tbl, key) = <<>> THEN <<>>
    ELSE RowsOf(tbl, key)[Len(RowsOf(tbl, key))].data_json.action_points

\* Run w commits the row of its current pair in this step.
Stores(w) ==
    /\ pc[w] = "insert"
    /\ pc'[w] = "loop"
    /\ Len(extractions') = Len(extractions) + 1

\* C14: the action points a run persists for a key are the union by name of
\* the prior latest and the new record: a name of the new record has exactly
\* the new entry (null fields included), a name of the prior latest alone has
\* the prior entry unchanged.
StoredIsUnion ==
    [][\A w \in Writers :
          Stores(w) =>
              LET prior == LastRowPoints(extractions, CurrentKey(w))
                  new == PairActionPoints(CurrentItem(w).sub_category)
                  stored == extractions'[Len(extractions')].data_json.action_points
              IN /\ NamesOf(stored) = NamesOf(prior) \cup NamesOf(new)
                 /\ \A n \in NamesOf(new) : EntryOf(stored, n) = EntryOf(new, n)
                 /\ \A n \in NamesOf(prior) \ NamesOf(new) :
                       EntryOf(stored, n) = EntryOf(prior, n)]_vars

\* Three rows of one key: A done, then B added, then A replaced by a null
\* status while B is carried forward.
StoredIsUnionWitness ==
    \E key \in Keys :
        /\ Len(RowsOf(extractions, key)) = 3
        /\ RowsOf(extractions, key)[1].data_json.action_points = <<ActionPoint("A", "done")>>
        /\ RowsOf(extractions, key)[3].data_json.action_points =
              <<ActionPoint("A", Null), ActionPoint("B", "done")>>


\* C15: a later row of a key contains every action_name an earlier row of the
\* key contained (each row was the key's latest when it was written):
\* knowledge only accumulates over sequential successful runs.
KnowledgeAccumulates ==
    \A key \in Keys :
        \A i, j \in 1..Len(RowsOf(extractions, key)) :
            i < j => NamesOf(RowsOf(extractions, key)[i].data_json.action_points)
                        \subseteq NamesOf(RowsOf(extractions, key)[j].data_json.action_points)

\* Prior latest {A: done}, then an upload with B alone: the latest row has A,
\* unchanged, and B.
KnowledgeAccumulatesWitness ==
    \E key \in Keys :
        /\ Len(RowsOf(extractions, key)) = 2
        /\ \A w \in Writers : pc[w] = "idle"
        /\ RowsOf(extractions, key)[1].data_json.action_points = <<ActionPoint("A", "done")>>
        /\ LatestOf(extractions, key) = <<RowsOf(extractions, key)[2]>>
        /\ RowsOf(extractions, key)[2].data_json.action_points =
              <<ActionPoint("A", "done"), ActionPoint("B", "done")>>


\* The additional_details a sub-category of the record carries.
PairDetails(sub) ==
    IF sub.information # <<>> THEN sub.information[1].additional_details ELSE <<>>

\* json.loads of a persisted data_json, as get_district_data_structured hands
\* it on: the additional_details it holds, none if the key is missing.
ParsedDetails(parsed) ==
    IF "additional_details" \in DOMAIN parsed THEN parsed.additional_details ELSE <<>>

\* C16: the data_json a run persists for a key, parsed back, is the merged
\* record of the key: the merged action points and the additional_details of
\* the sub-category.
PersistedRoundTrips ==
    [][\A w \in Writers :
          Stores(w) =>
              LET parsed == extractions'[Len(extractions')].data_json
                  details == PairDetails(CurrentItem(w).sub_category)
              IN /\ parsed.action_points = run[w].data_json.action_points
                 /\ \A k \in 1..Len(details) :
                       \E p \in 1..Len(ParsedDetails(parsed)) :
                           ParsedDetails(parsed)[p] = details[k]]_vars


\* C17: no step of the merge and store process deletes a row or changes a
\* column of an existing row other than is_latest from 1 to 0: the table only
\* grows and a historical row stays as written.
HistoryIsKept ==
    [][/\ Len(extractions') >= Len(extractions)
       /\ \A i \in 1..Len(extractions) :
             \/ extractions'[i] = extractions[i]
             \/ /\ extractions[i].is_latest = 1
                /\ extractions'[i] = [extractions[i] EXCEPT !.is_latest = 0]]_vars

\* A key with two historical rows under its latest one, written on two dates.
HistoryIsKeptWitness ==
    \E key \in Keys :
        /\ Len(RowsOf(extractions, key)) = 3
        /\ RowsOf(extractions, key)[1].is_latest = 0
        /\ RowsOf(extractions, key)[2].is_latest = 0
        /\ RowsOf(extractions, key)[1].version_date # RowsOf(extractions, key)[3].version_date
        /\ RowsOf(extractions, key)[1].data_json # RowsOf(extractions, key)[3].data_json


(***************************************************************************)
(* ReExtractSpec: sequential uploads, and one re_extract of the document   *)
(* last stored, whose extraction gives the same record again.              *)
(***************************************************************************)
\* routes/extract.py lines 62-81: extract_and_store once more for the same
\* document, district and upload_date; the record is the one of the run
\* before.  table_before keeps the table as the second run found it.
ReExtract(w) ==
    /\ pc[w] = "idle"
    /\ run[w].result = "success"
    /\ run[w].table_before = <<>>
    /\ Len(extractions) + Len(run[w].items) <= MaxRows
    /\ run' = [run EXCEPT ![w].i = 1, ![w].stored_count = 0, ![w].errors = <<>>,
                          ![w].result = "none", ![w].flipped = <<>>,
                          ![w].data_json = [action_points |-> <<>>],
                          ![w].table_before = <<extractions>>]
    /\ pc' = [pc EXCEPT ![w] = "loop"]
    /\ UNCHANGED <<extractions, seen>>
    /\ UNCHANGED <<splitVars, esdVars, llmVars>>

ReExtractNext ==
    \/ Begin("w1", {1}, {"2024-01-01"}, SeqInputs)
    \/ ReExtract("w1")
    \/ ReadMerge("w1")
    \/ Flip("w1")
    \/ Insert("w1")
    \/ Return("w1")

ReExtractSpec == Init /\ [][ReExtractNext]_vars

\* Run w is the second of two runs on the same document and record, and has
\* returned.
ReRunReturned(w) ==
    /\ pc[w] = "idle"
    /\ run[w].table_before # <<>>
    /\ run[w].result \in {"success", "failed"}

\* C18: after the second of two runs in a row for the same document with the
\* same record, every key's latest action points are what the first run left,
\* every written key still has one latest row, and the table has one more row
\* for each (sector, sub-category) pair of the record.
ReExtractIdempotent ==
    \A w \in Writers :
        ReRunReturned(w) =>
            LET before == run[w].table_before[1]
            IN /\ run[w].result = "success"
               /\ Len(extractions) = Len(before) + Len(run[w].items)
               /\ \A key \in Keys :
                     /\ Concat(LatestOf(extractions, key)) = Concat(LatestOf(before, key))
                     /\ Len(LatestOf(extractions, key)) = Len(LatestOf(before, key))
                     /\ Len(LatestOf(extractions, key)) <= 1

\* A re-run over a key that held an earlier upload's action point as well: the
\* key has three rows, the last two with the same two action points.
ReExtractWitness ==
    \E w \in Writers, key \in Keys :
        /\ ReRunReturned(w)
        /\ Len(RowsOf(extractions, key)) = 3
        /\ Len(RowsOf(extractions, key)[1].data_json.action_points) = 1
        /\ Len(RowsOf(extractions, key)[3].data_json.action_points) = 2
        /\ RowsOf(extractions, key)[2].is_latest = 0
        /\ RowsOf(extractions, key)[3].is_latest = 1


(***************************************************************************)
(* What a run reports: the dictionary extract_and_store returns and what   *)
(* the two endpoints make of it.  A key the dictionary or the response     *)
(* does not have is <<>>.                                                  *)
(***************************************************************************)
\* extraction_service.py lines 119-124 (success) and 36-40, 126-131 (failure).
extract_and_store_result(r) ==
    IF r.result = "success"
    THEN [success |-> TRUE, stored_extractions |-> <<r.stored_count>>,
          errors |-> <<r.errors>>]
    ELSE [success |-> FALSE, stored_extractions |-> <<>>, errors |-> <<>>]

\* routes/upload.py lines 155-166: a status and a message, nothing per key.
upload_response(res) ==
    [status |-> IF res.success THEN "success" ELSE "partial_success",
     stored_extractions |-> <<>>, errors |-> <<>>]

\* routes/extract.py lines 69-81: HTTP 500 on failure, else count and errors.
re_extract_response(res) ==
    IF res.success
    THEN [status |-> "200", stored_extractions |-> res.stored_extractions,
          errors |-> res.errors]
    ELSE [status |-> "500", stored_extractions |-> <<>>, errors |-> <<>>]

\* C19: a run that has returned on a record accounts for every (sector,
\* sub-category) pair: its result carries a stored count and an errors list
\* that together cover the pairs, and when a pair is not stored the errors
\* list reaches the caller of the upload and of the re-extract endpoint.
EveryKeyReported ==
    \A w \in Writers :
        Returned(w) =>
            LET res == extract_and_store_result(run[w])
            IN /\ res.stored_extractions # <<>>
               /\ res.errors # <<>>
               /\ res.stored_extractions[1] + Len(res.errors[1]) = Len(run[w].items)
               /\ res.errors[1] # <<>> =>
                     /\ upload_response(res).errors = res.errors
                     /\ re_extract_response(res).errors = res.errors


(***************************************************************************)
(* ShapeSpec: sequential runs on records in the old format, one of whose   *)
(* sub-categories may carry an action point that does not fit ActionPoint  *)
(* (an achievement_percentage that is no number).                          *)
(***************************************************************************)
ShapeSubCats ==
    {SubCategory("c1", <<ActionPoint("A", "done")>>),
     SubCategory("c1", <<ActionPoint("B", "done")>>),
     SubCategory("c2", <<ActionPoint("A", "done")>>),
     SubCategory("c2", <<ActionPointPct("B", "done", NotANumber)>>)}

ShapeInputs == ExtractedInputs(ShapeSubCats)

ShapeNext ==
    \/ Begin("w1", {1}, {"2024-01-01"}, ShapeInputs)
    \/ ReadMerge("w1")
    \/ Flip("w1")
    \/ Insert("w1")
    \/ Return("w1")

ShapeSpec == Init /\ [][ShapeNext]_vars

\* The sub-category fits the expected shape.
WellShaped(sub) ==
    \A a \in 1..Len(PairActionPoints(sub)) : ValidActionPoint(PairActionPoints(sub)[a])

\* C20: once a run has returned on a record, every (sector, sub-category)
\* pair of the record that fits the expected shape is stored (its key has a
\* latest row holding its action points) and the run reports success with
\* that many stored; a pair that does not fit costs only its own key.
OtherKeysStored ==
    \A w \in Writers :
        (/\ pc[w] = "idle"
         /\ run[w].result \in {"success", "failed"}
         /\ run[w].raw_data # <<>>) =>
            LET pairs == Flatten(run[w].raw_data[1].sectors)
                good == SelectSeq(pairs, LAMBDA item : WellShaped(item.sub_category))
            IN /\ good # <<>> => run[w].result = "success"
               /\ run[w].stored_count = Len(good)
               /\ \A k \in 1..Len(good) :
                     LET key == <<run[w].district_name, good[k].sector_name,
                                  good[k].sub_category.sub_category_name>>
                     IN /\ Len(LatestOf(extractions, key)) = 1
                        /\ NamesOf(PairActionPoints(good[k].sub_category))
                              \subseteq LatestNames(key)


\* The entries of the errors list of run w.
ErrorKeys(w) == {run[w].errors[e] : e \in 1..Len(run[w].errors)}

\* C21: when create_extraction raises for a pair, the run appends an error
\* naming its sector and sub-category, does not count it as stored, and goes
\* on: once it has returned, it reports success, stored count and errors
\* together cover the pairs, every error names a pair of the record, and every
\* pair whose key is in no error has its key's latest row with its action
\* points.
OneKeyFailureIsolated ==
    \A w \in Writers :
        Returned(w) =>
            /\ run[w].result = "success"
            /\ run[w].stored_count + Len(run[w].errors) = Len(run[w].items)
            /\ \A e \in ErrorKeys(w) :
                  \E k \in 1..Len(run[w].items) :
                      e = <<run[w].items[k].sector_name,
                            run[w].items[k].sub_category.sub_category_name>>
            /\ \A k \in 1..Len(run[w].items) :
                  LET item == run[w].items[k]
                      key == <<run[w].district_name, item.sector_name,
                               item.sub_category.sub_category_name>>
                  IN <<key[2], key[3]>> \notin ErrorKeys(w) =>
                        /\ Len(LatestOf(extractions, key)) = 1
                        /\ NamesOf(PairActionPoints(item.sub_category))
                              \subseteq LatestNames(key)

\* A run of two pairs whose first INSERT raised and whose second pair was
\* stored all the same.
OneKeyFailureWitness ==
    \E w \in Writers :
        /\ Returned(w)
        /\ Len(run[w].items) = 2
        /\ run[w].errors = << <<"Health", "c1">> >>
        /\ run[w].items[2].sub_category.sub_category_name = "c2"
        /\ run[w].stored_count = 1
        /\ Len(LatestOf(extractions, <<"Tawang", "Health", "c2">>)) = 1


(***************************************************************************)
(* GeminiClient.generate_completion.  A JSON value carries its type; a key *)
(* a dict does not have is <<>>, a key it has is <<value>>.                *)
(***************************************************************************)
JsonNull == [type |-> "null"]

JsonStr(t) == [type |-> "str", text |-> t]

\* choices[0].message: null, or an object with or without content.
Messages ==
    {JsonNull}
    \cup {[type |-> "dict", content |-> c] : c \in {<<>>, <<JsonStr("chat")>>}}

\* choices[0]: a string, or an object with or without text and message.
Choices ==
    {JsonStr("oops")}
    \cup {[type |-> "dict", text |-> t, message |-> m] :
             t \in {<<>>, <<JsonStr("completion")>>},
             m \in {<<>>} \cup {<<x>> : x \in Messages}}

\* The value of the 'choices' key: null, an empty list, a list of one choice.
ChoicesValues ==
    {JsonNull, [type |-> "list", items |-> <<>>]}
    \cup {[type |-> "list", items |-> <<c>>] : c \in Choices}

\* The envelopes: response.json() that is a dict.
Envelopes ==
    {[type |-> "dict", choices |-> ch, text |-> t, response |-> r, content |-> c] :
        ch \in {<<>>} \cup {<<v>> : v \in ChoicesValues},
        t \in {<<>>, <<JsonStr("text")>>},
        r \in {<<>>, <<JsonStr("response")>>},
        c \in {<<>>, <<JsonStr("content")>>}}

\* What requests.post and response.json() give: a network error, a status
\* that raise_for_status rejects, a body that is not JSON, or a JSON value.
Replies ==
    {[outcome |-> o, result |-> JsonNull] :
        o \in {"network_error", "bad_status", "not_json"}}
    \cup {[outcome |-> "json", result |-> v] :
             v \in Envelopes \cup {JsonStr("bare"), [type |-> "list", items |-> <<>>]}}

\* What a call gives its caller: it raises, or returns None (<<>>) or a text.
Raises == [raises |-> TRUE, value |-> <<>>]

Returns(v) == [raises |-> FALSE, value |-> v]

\* The text of a JSON value handed back as it is: a string is its text, null
\* is None.
TextOf(v) == IF v.type = "str" THEN <<v.text>> ELSE <<>>

\* The body serialized again by json.dumps.
RawBody == "raw body"

\* Line 57: choices[0].get("text", "") or
\* choices[0].get("message", {}).get("content", "").
FirstChoiceText(choice) ==
    IF choice.type # "dict" THEN Raises
    ELSE IF choice.text # <<>> /\ TextOf(choice.text[1]) \notin {<<>>, <<"">>}
         THEN Returns(TextOf(choice.text[1]))
    ELSE IF choice.message = <<>> THEN Returns(<<"">>)
    ELSE IF choice.message[1].type # "dict" THEN Raises
    ELSE IF choice.message[1].content = <<>> THEN Returns(<<"">>)
    ELSE Returns(TextOf(choice.message[1].content[1]))

\* Lines 55-70 on the value response.json() returned.
ExtractText(result) ==
    IF result.type = "dict"
    THEN IF result.choices # <<>>
         THEN IF result.choices[1].type # "list" THEN Raises
              ELSE IF Len(result.choices[1].items) > 0
                   THEN FirstChoiceText(result.choices[1].items[1])
              ELSE IF result.text # <<>> THEN Returns(TextOf(result.text[1]))
              ELSE IF result.response # <<>> THEN Returns(TextOf(result.response[1]))
              ELSE IF result.content # <<>> THEN Returns(TextOf(result.content[1]))
              ELSE Returns(<<RawBody>>)
         ELSE IF result.text # <<>> THEN Returns(TextOf(result.text[1]))
         ELSE IF result.response # <<>> THEN Returns(TextOf(result.response[1]))
         ELSE IF result.content # <<>> THEN Returns(TextOf(result.content[1]))
         ELSE Returns(<<RawBody>>)
    ELSE IF result.type = "str" THEN Returns(<<result.text>>)
    ELSE Returns(<<RawBody>>)

\* Lines 41-77.  requests.post raising and raise_for_status raising are
\* RequestException: None.  response.json() on a body that is not JSON raises
\* a RequestException in requests 2.27 and later and a plain ValueError
\* before: None or an exception, by the installed version.
generate_completion(r) ==
    IF r.outcome \in {"network_error", "bad_status"} THEN {Returns(<<>>)}
    ELSE IF r.outcome = "not_json" THEN {Returns(<<>>), Raises}
    ELSE {ExtractText(r.result)}

CompletionInit ==
    /\ StoreInit
    /\ SplitIdle
    /\ EsdIdle
    /\ lpc = "call"
    /\ reply \in Replies
    /\ completion = <<>>
    /\ parse_text = <<>>

\* One generate_completion call.
GenerateCompletion ==
    /\ lpc = "call"
    /\ \E c \in generate_completion(reply) : completion' = <<c>>
    /\ lpc' = "completed"
    /\ UNCHANGED <<reply, parse_text>>
    /\ UNCHANGED <<storeVars, splitVars, esdVars>>

CompletionNext == GenerateCompletion

CompletionSpec == CompletionInit /\ [][CompletionNext]_vars

\* C22: generate_completion never raises to its caller; for a network error,
\* a status that is not 2xx, a body that is not JSON and a malformed envelope
\* ('choices' null, or a first choice that is no object) it returns None.
NeverRaises ==
    lpc = "completed" =>
        /\ ~completion[1].raises
        /\ (\/ reply.outcome # "json"
            \/ (/\ reply.result.type = "dict"
                /\ reply.result.choices # <<>>
                /\ \/ reply.result.choices[1].type # "list"
                   \/ /\ Len(reply.result.choices[1].items) > 0
                      /\ reply.result.choices[1].items[1].type # "dict"))
              => completion[1].value = <<>>


\* The order the specification gives: the first that the envelope has of
\* choices[0].message.content, choices[0].text, text, response, content, and
\* the serialized body when it has none of them.
HasMessageContent(result) ==
    /\ result.choices # <<>>
    /\ result.choices[1].type = "list"
    /\ Len(result.choices[1].items) > 0
    /\ result.choices[1].items[1].type = "dict"
    /\ result.choices[1].items[1].message # <<>>
    /\ result.choices[1].items[1].message[1].type = "dict"
    /\ result.choices[1].items[1].message[1].content # <<>>

HasChoiceText(result) ==
    /\ result.choices # <<>>
    /\ result.choices[1].type = "list"
    /\ Len(result.choices[1].items) > 0
    /\ result.choices[1].items[1].type = "dict"
    /\ result.choices[1].items[1].text # <<>>

PriorityText(result) ==
    IF HasMessageContent(result)
    THEN TextOf(result.choices[1].items[1].message[1].content[1])
    ELSE IF HasChoiceText(result) THEN TextOf(result.choices[1].items[1].text[1])
    ELSE IF result.text # <<>> THEN TextOf(result.text[1])
    ELSE IF result.response # <<>> THEN TextOf(result.response[1])
    ELSE IF result.content # <<>> THEN TextOf(result.content[1])
    ELSE <<RawBody>>

\* C23: a completion that generate_completion returns for an envelope is the
\* first present of choices[0].message.content, choices[0].text, top-level
\* text, response and content; the serialized body only when none is there.
PriorityOrder ==
    (/\ lpc = "completed"
     /\ reply.outcome = "json"
     /\ reply.result.type = "dict"
     /\ ~completion[1].raises)
        => completion[1].value = PriorityText(reply.result)


(***************************************************************************)
(* GeminiClient._extract_from_chunk: from the completion to the text that  *)
(* json.loads is given.  A response is a sequence of tokens: a fence of    *)
(* three backticks, the tag json, the two braces, a blank, other text.     *)
(***************************************************************************)
MaxResponseLen == 5

Fence == "fence"

Tokens == {Fence, "json", "{", "}", " ", "x"}

Responses == SeqsUpTo(Tokens, MaxResponseLen)

\* pattern occurs in text at the 0-based index i.
OccursAt(text, pattern, i) ==
    /\ i >= 0
    /\ i + Len(pattern) <= Len(text)
    /\ \A k \in 1..Len(pattern) : text[i + k] = pattern[k]

\* str.find(pattern, from): the lowest index at or after from, else -1.
Find(text, pattern, from) ==
    LET hits == {i \in from..Len(text) : OccursAt(text, pattern, i)}
    IN IF hits = {} THEN -1 ELSE CHOOSE i \in hits : \A j \in hits : i <= j

\* str.rfind(pattern): the highest index, else -1.
RFind(text, pattern) ==
    LET hits == {i \in 0..Len(text) : OccursAt(text, pattern, i)}
    IN IF hits = {} THEN -1 ELSE CHOOSE i \in hits : \A j \in hits : i >= j

\* text[lo:hi].
Slice(text, lo, hi) ==
    LET b == PySlice(lo, hi, Len(text))
    IN IF b[2] > b[1] THEN SubSeq(text, b[1] + 1, b[2]) ELSE <<>>

\* str.strip(): leading and trailing blanks removed.
RECURSIVE LStrip(_)
LStrip(text) ==
    IF text # <<>> /\ Head(text) = " " THEN LStrip(Tail(text)) ELSE text

RECURSIVE RStrip(_)
RStrip(text) ==
    IF text # <<>> /\ text[Len(text)] = " "
    THEN RStrip(SubSeq(text, 1, Len(text) - 1))
    ELSE text

Strip(text) == LStrip(RStrip(text))

\* Lines 205-212: the interior of the fenced block.
Unfenced(response) ==
    IF Find(response, <<Fence, "json">>, 0) >= 0
    THEN LET json_start == Find(response, <<Fence, "json">>, 0) + 2
             json_end == Find(response, <<Fence>>, json_start)
         IN Strip(Slice(response, json_start, json_end))
    ELSE IF Find(response, <<Fence>>, 0) >= 0
    THEN LET json_start == Find(response, <<Fence>>, 0) + 1
             json_end == Find(response, <<Fence>>, json_start)
         IN Strip(Slice(response, json_start, json_end))
    ELSE response

\* Lines 215-219: from the first opening to the last closing brace.
Braced(response) ==
    LET json_start == Find(response, <<"{">>, 0)
        json_end == RFind(response, <<"}">>) + 1
    IN IF json_start >= 0 /\ json_end > json_start
       THEN Slice(response, json_start, json_end)
       ELSE response

\* Lines 199-221: None for no completion, else the argument of json.loads.
json_loads_argument(response) ==
    IF response = <<>> \/ response[1] = <<>> THEN <<>>
    ELSE <<Braced(Unfenced(response[1]))>>

ParseInit ==
    /\ StoreInit
    /\ SplitIdle
    /\ EsdIdle
    /\ lpc = "completed"
    /\ reply = <<>>
    /\ completion \in {<<Returns(<<>>)>>} \cup {<<Returns(<<r>>)>> : r \in Responses}
    /\ parse_text = <<>>

\* _extract_from_chunk after generate_completion returned.
ParseResponse ==
    /\ lpc = "completed"
    /\ ~completion[1].raises
    /\ parse_text' = json_loads_argument(completion[1].value)
    /\ lpc' = "parsed"
    /\ UNCHANGED <<reply, completion>>
    /\ UNCHANGED <<storeVars, splitVars, esdVars>>

ParseNext == ParseResponse

ParseSpec == ParseInit /\ [][ParseNext]_vars

\* The recovery the specification describes: the interior of the first fenced
\* block tagged json, else of the first fenced block, else the whole response;
\* an opening fence that is never closed makes no block.
ClosedAfter(response, from) == Find(response, <<Fence>>, from) >= 0

RecoveredBlock(response) ==
    LET tagged == Find(response, <<Fence, "json">>, 0)
        any == Find(response, <<Fence>>, 0)
    IN IF tagged >= 0 /\ ClosedAfter(response, tagged + 2)
       THEN Slice(response, tagged + 2, Find(response, <<Fence>>, tagged + 2))
       ELSE IF any >= 0 /\ ClosedAfter(response, any + 1)
       THEN Slice(response, any + 1, Find(response, <<Fence>>, any + 1))
       ELSE response

\* C24: the text handed to the JSON parse is the recovered block narrowed to
\* its first '{' through its last '}'; with an opening fence and no closing
\* fence the whole response is used and no character of it is lost.  Stated
\* for the responses whose recovered block holds a '{' and a later '}'.
HasObject(text) ==
    /\ Find(text, <<"{">>, 0) >= 0
    /\ RFind(text, <<"}">>) > Find(text, <<"{">>, 0)

ParsedTextIsRecovered ==
    (/\ lpc = "parsed"
     /\ completion[1].value # <<>>
     /\ HasObject(RecoveredBlock(completion[1].value[1])))
        => /\ parse_text # <<>>
           /\ parse_text[1] = Braced(RecoveredBlock(completion[1].value[1]))


(***************************************************************************)
(* SelfMergeSpec: _merge_extraction_results on the list [r, r].            *)
(***************************************************************************)
\* Sub-categories of a record: one or two action points, names repeated or
\* not, with and without additional_details, and one in the old format.
SelfMergeSubCats(name) ==
    {[sub_category_name |-> name, action_points |-> <<>>,
      information |-> <<[action_points |-> aps, additional_details |-> details]>>] :
        aps \in SeqsUpTo(MergeActionPoints, MaxPartialAPs),
        details \in {<<>>, << <<"budget", "10">> >>}}
    \cup {SubCategory(name, <<ActionPointPct("B", "done", Null)>>)}

SelfMergeRecords ==
    {ExtractedData("Tawang", date, <<Sector("Health", subs)>>) :
        date \in Dates,
        subs \in {<<s>> : s \in SelfMergeSubCats("c1")}
                 \cup {<<s, SubCategoryInfo("c2", <<ActionPointPct("B", "done", "75")>>)>> :
                          s \in SelfMergeSubCats("c1")}}

SelfMergeInit ==
    /\ StoreInit
    /\ LlmIdle
    /\ SplitIdle
    /\ epc = "merge"
    /\ document_length = 0
    /\ ci = 0
    /\ \E r \in SelfMergeRecords :
          /\ all_extracted_data = <<r, r>>
          /\ esd_args = [district_name |-> r.district, upload_date |-> r.upload_date]
    /\ failed_chunks = <<>>
    /\ esd_result = <<>>

SelfMergeNext == MergeResults

SelfMergeSpec == SelfMergeInit /\ [][SelfMergeNext]_vars

\* r is a StructuredExtraction: every sub-category carries its action points
\* and additional_details in an information object, the action points of a
\* sub-category have non-empty names, no two of them the same.
UniqueActionNames(r) ==
    \A i \in 1..Len(r.sectors) :
        \A j \in 1..Len(r.sectors[i].sub_categories) :
            LET sub == r.sectors[i].sub_categories[j]
            IN /\ sub.information # <<>>
               /\ sub.action_points = <<>>
               /\ LET aps == sub.information[1].action_points
                  IN /\ \A k \in 1..Len(aps) : aps[k].action_name # ""
                     /\ \A k, l \in 1..Len(aps) :
                           aps[k].action_name = aps[l].action_name => k = l

\* C25: merging a record r of unique action names with itself gives r: no
\* action name twice, no field and no action point lost.
SelfMergeIsIdentity ==
    (/\ epc = "returned"
     /\ Len(all_extracted_data) = 2
     /\ all_extracted_data[1] = all_extracted_data[2]
     /\ UniqueActionNames(all_extracted_data[1]))
        => esd_result = <<all_extracted_data[1]>>

SelfMergeWitness ==
    /\ epc = "returned"
    /\ Len(all_extracted_data) = 2
    /\ all_extracted_data[1] = all_extracted_data[2]
    /\ UniqueActionNames(all_extracted_data[1])
    /\ LET sub == all_extracted_data[1].sectors[1].sub_categories[1]
       IN /\ Len(sub.information[1].action_points) = 2
          /\ sub.information[1].additional_details # <<>>
    /\ esd_result = <<all_extracted_data[1]>>


\* C26: for len(text) <= chunk_size and every overlap_size < chunk_size the
\* chunker makes exactly one chunk, the whole text, the empty text included:
\* the list never holds a second chunk and the list returned is [text].
ShortTextIsOneChunk ==
    text_length <= chunk_size =>
        /\ Len(chunks) <= 1
        /\ spc = "done" => chunks = <<PySlice(0, text_length, text_length)>>


\* C27: _merge_extraction_results is a pure function: when it has returned,
\* every partial of the list it was given is what it was before the call, and
\* the merge of the same list a second time is an equal result.
MergeIsPure ==
    [][(epc = "merge" /\ epc' = "returned") =>
          /\ all_extracted_data' = all_extracted_data
          /\ merge_extraction_results(all_extracted_data', esd_args.district_name,
                                      esd_args.upload_date) = esd_result'[1]]_vars


(***************************************************************************)
(* ParseLoopSpec: the chunk loop of extract_structured_data with every     *)
(* chunk's _extract_from_chunk call spelled out: the completion, the text  *)
(* cut out of it, json.loads.  As ChunkLoopSpec it starts from the chunk   *)
(* list the chunker would have to return.                                  *)
(***************************************************************************)
\* json.loads on a token text, blanks aside: {} is the empty object, braces
\* around other text are an object with members, anything else raises
\* JSONDecodeError.
NoBlanks(text) == SelectSeq(text, LAMBDA t : t # " ")

json_loads(text) ==
    LET t == NoBlanks(text)
    IN IF t = <<"{", "}">> THEN "empty"
       ELSE IF /\ Len(t) > 2
               /\ t[1] = "{"
               /\ t[Len(t)] = "}"
               /\ \A k \in 2..(Len(t) - 1) : t[k] = "x"
       THEN "object"
       ELSE "JSONDecodeError"

\* Lines 193-227: what the call gives for a completion c, members standing for
\* the record the object's members spell.
extract_from_chunk(c, members) ==
    IF c.raises THEN Raises
    ELSE IF json_loads_argument(c.value) = <<>> THEN Returns(<<>>)
    ELSE LET parsed == json_loads(json_loads_argument(c.value)[1])
         IN IF parsed = "JSONDecodeError" THEN Returns(<<>>)
            ELSE IF parsed = "empty" THEN Returns(<<EmptyDict>>)
            ELSE Returns(<<members>>)

\* Completions of the chunks: an exception, None, the empty text, prose, an
\* object bare, in prose, fenced and in a fence that is not closed, and {}.
ChunkCompletions ==
    {Raises, Returns(<<>>)}
    \cup {Returns(<<r>>) :
             r \in {<<>>, <<"x">>, <<"{", "x", "}">>, <<"x", "{", "x", "}">>,
                    <<Fence, "json", "{", "x", "}", Fence>>,
                    <<Fence, "json", "{", "x", "}">>, <<"{", "}">>}}

ParseLoopLengths == {9000, 16000}

ParseLoopInit ==
    /\ StoreInit
    /\ lpc = "idle"
    /\ reply = <<>>
    /\ completion = <<>>
    /\ parse_text = <<>>
    /\ \E n \in ParseLoopLengths :
          /\ document_length = n
          /\ text_length = n
          /\ chunks = WindowsFrom(0, n, CHUNK_SIZE, OVERLAP_SIZE)
          /\ start = n - OVERLAP_SIZE
    /\ chunk_size = CHUNK_SIZE
    /\ overlap_size = OVERLAP_SIZE
    /\ spc = "done"
    /\ epc = "split"
    /\ esd_args = [district_name |-> "Tawang", upload_date |-> "2024-01-01"]
    /\ ci = 0
    /\ all_extracted_data = <<>>
    /\ failed_chunks = <<>>
    /\ esd_result = <<>>

\* Lines 111-126 with the call of line 116 spelled out.
EsdChunkExtract ==
    /\ epc = "chunks"
    /\ ci <= Len(chunks)
    /\ \E c \in ChunkCompletions, members \in ChunkPartials :
          LET chunk_result == extract_from_chunk(c, members)
          IN /\ completion' = <<c>>
             /\ parse_text' = IF c.raises THEN <<>> ELSE json_loads_argument(c.value)
             /\ IF /\ ~chunk_result.raises
                   /\ chunk_result.value # <<>>
                   /\ chunk_result.value[1] # EmptyDict
                THEN /\ all_extracted_data' =
                            Append(all_extracted_data, chunk_result.value[1])
                     /\ UNCHANGED failed_chunks
                ELSE /\ failed_chunks' = Append(failed_chunks, ci)
                     /\ UNCHANGED all_extracted_data
    /\ lpc' = "parsed"
    /\ ci' = ci + 1
    /\ UNCHANGED <<epc, document_length, esd_args, esd_result, reply>>
    /\ UNCHANGED <<storeVars, splitVars>>

ParseLoopNext ==
    \/ EsdChunksReady
    \/ EsdChunkExtract
    \/ EsdFinish

ParseLoopSpec == ParseLoopInit /\ [][ParseLoopNext]_vars

\* The completion of the chunk is there and the text cut out of it parses.
ParsesAsJson(c) ==
    /\ ~c.raises
    /\ c.value # <<>>
    /\ json_loads_argument(c.value) # <<>>
    /\ json_loads(json_loads_argument(c.value)[1]) # "JSONDecodeError"

history_precedes(a, b) ==
    /\ a.district_id = b.district_id
    /\ DateRank(a.version_date) > DateRank(b.version_date)

\* C29: after sequential create_extraction calls the row with is_latest = 1
\* of a key is the one the most recent call inserted, the highest id of the
\* key, whatever the version_date values are.
LatestIsNewest ==
    NoCallUnderWay =>
        \A i \in 1..Len(extractions) :
            extractions[i].is_latest = 1 <=>
                \A j \in 1..Len(extractions) :
                    KeyOf(extractions[j]) = KeyOf(extractions[i])
                        => extractions[j].id <= extractions[i].id

\* The latest row of a key has an earlier version_date than a historical row
\* of the key, which the history lists before it.
LatestIsNewestWitness ==
    /\ NoCallUnderWay
    /\ \E i, j \in 1..Len(extractions) :
          /\ KeyOf(extractions[j]) = KeyOf(extractions[i])
          /\ extractions[i].is_latest = 1
          /\ extractions[j].is_latest = 0
          /\ extractions[j].id < extractions[i].id
          /\ history_precedes(extractions[j], extractions[i])

====
